---- MODULE Spec2Model ----
(***************************************************************************)
(* Model of the three Rust version-injection fixtures of versionator:      *)
(*   A  examples/rust/main.rs                      (option_env!)           *)
(*   B  tests/containers/projects/rust/link        (env!)                  *)
(*   C  tests/containers/projects/rust/patch       (reads Cargo.toml)      *)
(* A behaviour builds one of the programs with some compile-time           *)
(* environment, then runs the binary statement by statement; the binary    *)
(* may be rebuilt and run again.                                           *)
(***************************************************************************)
EXTENDS Integers, Sequences, FiniteSets, TLC

VARIABLES prog, buildEnv, binary, runEnv, file, pc, cargo_toml, parsed,
          version, stdout, stderr, exitStatus, runs, prev

vars == <<prog, buildEnv, binary, runEnv, file, pc, cargo_toml, parsed,
          version, stdout, stderr, exitStatus, runs, prev>>

\* ------------------------------------------------------------------ bounds
MaxLines == 2   \* longest Cargo.toml, in lines
MaxRuns == 2    \* runs of the program in one behaviour

\* ---------------------------------------------------------------- options
None == [some |-> FALSE, v |-> ""]
Some(x) == [some |-> TRUE, v |-> x]
unwrap_or(opt, default) == IF opt.some THEN opt.v ELSE default

\* Values of the VERSION environment variable: unset, or set to a string.
VersionStrings == {"", "1.2.3", "dev"}
EnvValues == {None} \cup {Some(s) : s \in VersionStrings}
\* VERSION in the environment the binary is started in.
RuntimeEnvValues == {None, Some("dev")}

\* ------------------------------------------------------------ toml values
EmptyTable == [k \in {} |-> None]
ValueTypes == {"String", "Integer", "Float", "Boolean", "Datetime", "Array", "Table"}
Value(t, str, table) == [type |-> t, s |-> str, tbl |-> table]
StringValue(str) == Value("String", str, EmptyTable)
Scalar(t) == Value(t, "", EmptyTable)
TableValue(table) == Value("Table", "", table)

\* The right-hand sides a `key = value` line of the manifest may carry.
LineValues == {StringValue("1.2.3"), StringValue("dev"), Scalar("Integer"),
               Scalar("Float"), Scalar("Boolean"), Scalar("Datetime"),
               Scalar("Array"), TableValue(EmptyTable)}

\* Lines of a manifest: a table header, a key/value pair, or text that is
\* not TOML.
Header(name) == [kind |-> "header", key |-> name, val |-> Scalar("Boolean")]
KeyVal(k, v) == [kind |-> "kv", key |-> k, val |-> v]
Junk == [kind |-> "junk", key |-> "", val |-> Scalar("Boolean")]
Lines == {Header("package"), Header("dependencies"), Junk,
          KeyVal("package", Scalar("Integer"))}
         \cup {KeyVal("version", v) : v \in LineValues}

RECURSIVE SeqsUpTo(_, _)
SeqsUpTo(S, n) ==
    IF n = 0 THEN {<<>>}
    ELSE LET shorter == SeqsUpTo(S, n - 1)
         IN shorter \cup {Append(q, x) : q \in {r \in shorter : Len(r) = n - 1}, x \in S}

\* The file system entry ./Cargo.toml: absent, or a file with some lines.
NoFile == [exists |-> FALSE, lines |-> <<>>]
FileOf(ls) == [exists |-> TRUE, lines |-> ls]
Files == {NoFile} \cup {FileOf(ls) : ls \in SeqsUpTo(Lines, MaxLines)}

\* -------------------------------------------------------------- compilation
\* What a build leaves behind: no binary, or a binary with the string the
\* macro expanded to baked in.
NoBinary == [built |-> FALSE, version |-> None]
BinaryWith(opt) == [built |-> TRUE, version |-> opt]

\* Variant: an empty VERSION is taken for an unset one.
option_env_nonempty(env) == IF env.some /\ env.v # "" THEN env ELSE None

\* option_env!("VERSION"): Some(value) if the variable is set while
\* compiling, None otherwise; never a compile error.
option_env(env) == env

\* examples/rust/main.rs always compiles.
CompileA(env) == BinaryWith(option_env(env))

\* Variant: option_env!("VERSION").unwrap_or("0.0.0") in place of env!.
CompileB_default(env) == BinaryWith(Some(unwrap_or(env, "0.0.0")))

\* env!("VERSION"): the value if the variable is set while compiling, a
\* compile error (no binary) otherwise.
CompileB(env) == IF env.some THEN BinaryWith(Some(env.v)) ELSE NoBinary

\* The patch fixture uses no compile-time environment.
CompileC(env) == BinaryWith(None)

\* ------------------------------------------------------------------ output
Banner == "Sample Rust Application"
FormatVersion(v) == "Version: " \o v
\* Variant: print! in place of println!, no line break after the text.
print_noline(out, line) ==
    IF out = <<>> THEN <<line>> ELSE [out EXCEPT ![Len(out)] = @ \o line]
println(out, line) == Append(out, line)

\* ------------------------------------------------ patch fixture's helpers
Ok(x) == [ok |-> TRUE, v |-> x]
Err(x) == [ok |-> FALSE, v |-> x]

\* fs::read_to_string("Cargo.toml")
read_to_string(f) == IF f.exists THEN Ok(f.lines) ELSE Err(<<>>)

\* cargo_toml.parse::<toml::Value>(): the document's root table, or an error
\* for text that is not TOML, a key defined twice or a table defined twice.
ParseStart == [err |-> FALSE, root |-> EmptyTable, cur |-> ""]
ParseLine(st, ln) ==
    IF st.err \/ ln.kind = "junk" THEN [st EXCEPT !.err = TRUE]
    ELSE IF ln.kind = "header"
    THEN IF ln.key \in DOMAIN st.root THEN [st EXCEPT !.err = TRUE]
         ELSE [err |-> FALSE,
               root |-> (ln.key :> TableValue(EmptyTable)) @@ st.root,
               cur |-> ln.key]
    ELSE IF st.cur = ""
    THEN IF ln.key \in DOMAIN st.root THEN [st EXCEPT !.err = TRUE]
         ELSE [st EXCEPT !.root = (ln.key :> ln.val) @@ st.root]
    ELSE IF ln.key \in DOMAIN st.root[st.cur].tbl THEN [st EXCEPT !.err = TRUE]
         ELSE [st EXCEPT !.root =
                  (st.cur :> TableValue((ln.key :> ln.val) @@ st.root[st.cur].tbl))
                  @@ st.root]

RECURSIVE ParseLines(_, _)
ParseLines(st, ls) ==
    IF ls = <<>> THEN st ELSE ParseLines(ParseLine(st, Head(ls)), Tail(ls))

ParseToml(ls) ==
    LET st == ParseLines(ParseStart, ls)
    IN IF st.err THEN Err(TableValue(EmptyTable)) ELSE Ok(TableValue(st.root))

\* toml::Value::get(key): the entry of a table, None for a missing key or a
\* value that is no table.
Get(val, key) ==
    IF val.type = "Table" /\ key \in DOMAIN val.tbl THEN Some(val.tbl[key]) ELSE None

\* Variants: as_str that never matches, and one that matches every type.
as_str_none(val) == None
as_str_any(val) == Some(val.s)

\* toml::Value::as_str()
as_str(val) == IF val.type = "String" THEN Some(val.s) ELSE None

\* parsed["package"]["version"]: Index for toml::Value is
\* get(index).expect("index not found"), so either index may panic.
IndexPackageVersion(val) ==
    LET p == Get(val, "package")
    IN IF ~p.some THEN Err(Scalar("Boolean"))
       ELSE LET q == Get(p.v, "version")
            IN IF ~q.some THEN Err(Scalar("Boolean")) ELSE Ok(q.v)

\* ------------------------------------------------------------ initial state
Programs == {"A", "B", "C"}
Unparsed == TableValue(EmptyTable)
NoRun == [valid |-> FALSE, binary |-> NoBinary, buildEnv |-> None,
          runEnv |-> None, file |-> NoFile, stdout |-> <<>>, exitStatus |-> -1]

\* Nothing is built yet.  A and B open no file, so the working directory's
\* Cargo.toml only varies for C.
Init ==
    /\ prog \in Programs
    /\ buildEnv \in EnvValues
    /\ file \in IF prog = "C" THEN Files ELSE {NoFile}
    /\ binary = NoBinary
    /\ runEnv = None
    /\ pc = "build"
    /\ cargo_toml = <<>>
    /\ parsed = Unparsed
    /\ version = ""
    /\ stdout = <<>>
    /\ stderr = <<>>
    /\ exitStatus = -1
    /\ runs = 0
    /\ prev = NoRun

\* ------------------------------------------------------------------- build
\* cargo build with VERSION as buildEnv says.
Build ==
    /\ pc = "build"
    /\ binary' = CASE prog = "A" -> CompileA(buildEnv)
                   [] prog = "B" -> CompileB(buildEnv)
                   [] prog = "C" -> CompileC(buildEnv)
    /\ pc' = IF binary'.built THEN "ready" ELSE "build_failed"
    /\ UNCHANGED <<prog, buildEnv, runEnv, file, cargo_toml, parsed, version,
                   stdout, stderr, exitStatus, runs, prev>>

\* The binary is started with some runtime environment; main begins at its
\* first statement.
Exec ==
    /\ pc = "ready"
    /\ runs < MaxRuns
    /\ \E e \in RuntimeEnvValues : runEnv' = e
    /\ runs' = runs + 1
    /\ pc' = CASE prog = "A" -> "A3" [] prog = "B" -> "B5" [] prog = "C" -> "C5"
    /\ cargo_toml' = <<>>
    /\ parsed' = Unparsed
    /\ version' = ""
    /\ stdout' = <<>>
    /\ stderr' = <<>>
    /\ exitStatus' = -1
    /\ UNCHANGED <<prog, buildEnv, binary, file, prev>>

\* ------------------------------------------------- examples/rust/main.rs
\* Variant: VERSION looked up when the program runs (std::env::var).
A_LetVersion_runtime ==
    /\ pc = "A3"
    /\ version' = unwrap_or(runEnv, "0.0.0")
    /\ pc' = "A5"
    /\ UNCHANGED <<prog, buildEnv, binary, runEnv, file, cargo_toml, parsed,
                   stdout, stderr, exitStatus, runs, prev>>

A_LetVersion ==
    /\ pc = "A3"
    /\ version' = unwrap_or(binary.version, "0.0.0")
    /\ pc' = "A5"
    /\ UNCHANGED <<prog, buildEnv, binary, runEnv, file, cargo_toml, parsed,
                   stdout, stderr, exitStatus, runs, prev>>

A_PrintBanner ==
    /\ pc = "A5"
    /\ stdout' = println(stdout, Banner)
    /\ pc' = "A6"
    /\ UNCHANGED <<prog, buildEnv, binary, runEnv, file, cargo_toml, parsed,
                   version, stderr, exitStatus, runs, prev>>

A_PrintVersion ==
    /\ pc = "A6"
    /\ stdout' = println(stdout, FormatVersion(version))
    /\ pc' = "return"
    /\ UNCHANGED <<prog, buildEnv, binary, runEnv, file, cargo_toml, parsed,
                   version, stderr, exitStatus, runs, prev>>

\* --------------------------------- tests/containers/projects/rust/link
\* Variant: the link fixture prints the example's banner as well.
B_PrintVersion_banner ==
    /\ pc = "B5"
    /\ stdout' = println(println(stdout, Banner), FormatVersion(binary.version.v))
    /\ pc' = "return"
    /\ UNCHANGED <<prog, buildEnv, binary, runEnv, file, cargo_toml, parsed,
                   version, stderr, exitStatus, runs, prev>>

B_PrintVersion ==
    /\ pc = "B5"
    /\ stdout' = println(stdout, FormatVersion(binary.version.v))
    /\ pc' = "return"
    /\ UNCHANGED <<prog, buildEnv, binary, runEnv, file, cargo_toml, parsed,
                   version, stderr, exitStatus, runs, prev>>

\* -------------------------------- tests/containers/projects/rust/patch
\* A panic in main writes its message to stderr and ends the process with
\* status 101.
PanicStatus == 101
\* Variant: the error is reported and main returns normally.
Panic_exit0(msg) ==
    /\ stderr' = Append(stderr, msg)
    /\ exitStatus' = 0
    /\ pc' = "done"

Panic(msg) ==
    /\ stderr' = Append(stderr, msg)
    /\ exitStatus' = PanicStatus
    /\ pc' = "done"

C_Read ==
    /\ pc = "C5"
    /\ LET r == read_to_string(file)
       IN IF r.ok
          THEN /\ cargo_toml' = r.v
               /\ pc' = "C6"
               /\ UNCHANGED <<stderr, exitStatus>>
          ELSE /\ Panic("Failed to read Cargo.toml")
               /\ UNCHANGED cargo_toml
    /\ UNCHANGED <<prog, buildEnv, binary, runEnv, file, parsed, version,
                   stdout, runs, prev>>

C_Parse ==
    /\ pc = "C6"
    /\ LET r == ParseToml(cargo_toml)
       IN IF r.ok
          THEN /\ parsed' = r.v
               /\ pc' = "C7"
               /\ UNCHANGED <<stderr, exitStatus>>
          ELSE /\ Panic("Failed to parse Cargo.toml")
               /\ UNCHANGED parsed
    /\ UNCHANGED <<prog, buildEnv, binary, runEnv, file, cargo_toml, version,
                   stdout, runs, prev>>

C_LetVersion ==
    /\ pc = "C7"
    /\ LET r == IndexPackageVersion(parsed)
       IN IF r.ok
          THEN /\ version' = unwrap_or(as_str(r.v), "unknown")
               /\ pc' = "C8"
               /\ UNCHANGED <<stderr, exitStatus>>
          ELSE /\ Panic("index not found")
               /\ UNCHANGED version
    /\ UNCHANGED <<prog, buildEnv, binary, runEnv, file, cargo_toml, parsed,
                   stdout, runs, prev>>

C_PrintVersion ==
    /\ pc = "C8"
    /\ stdout' = println(stdout, FormatVersion(version))
    /\ pc' = "return"
    /\ UNCHANGED <<prog, buildEnv, binary, runEnv, file, cargo_toml, parsed,
                   version, stderr, exitStatus, runs, prev>>

\* ------------------------------------------------------------ process end
\* main returns: the process exits with status 0.
Return ==
    /\ pc = "return"
    /\ exitStatus' = 0
    /\ pc' = "done"
    /\ UNCHANGED <<prog, buildEnv, binary, runEnv, file, cargo_toml, parsed,
                   version, stdout, stderr, runs, prev>>

\* What the finished run looked like from outside.
Snapshot == [valid |-> TRUE, binary |-> binary, buildEnv |-> buildEnv,
             runEnv |-> runEnv, file |-> file, stdout |-> stdout,
             exitStatus |-> exitStatus]

\* The same binary is started again.
Rerun ==
    /\ pc = "done"
    /\ runs < MaxRuns
    /\ prev' = Snapshot
    /\ pc' = "ready"
    /\ UNCHANGED <<prog, buildEnv, binary, runEnv, file, cargo_toml, parsed,
                   version, stdout, stderr, exitStatus, runs>>

\* The project is built again with another compile-time environment.
Rebuild ==
    /\ \/ pc = "done" /\ runs < MaxRuns /\ prev' = Snapshot
       \/ pc = "build_failed" /\ UNCHANGED prev
    /\ \E e \in EnvValues \ {buildEnv} : buildEnv' = e
    /\ binary' = NoBinary
    /\ pc' = "build"
    /\ UNCHANGED <<prog, runEnv, file, cargo_toml, parsed, version, stdout,
                   stderr, exitStatus, runs>>

Next ==
    \/ Build
    \/ Exec
    \/ A_LetVersion
    \/ A_PrintBanner
    \/ A_PrintVersion
    \/ B_PrintVersion
    \/ C_Read
    \/ C_Parse
    \/ C_LetVersion
    \/ C_PrintVersion
    \/ Return
    \/ Rerun
    \/ Rebuild

Spec == Init /\ [][Next]_vars

\* ====================================================== manifest, as text
\* What a Cargo.toml is, read off its lines without running the parser.
ManifestLines == file.lines
LineIndices(ls) == 1..Len(ls)

\* The table a line belongs to: the nearest header above it, "" for the root.
SectionOf(ls, i) ==
    LET hs == {j \in 1..(i - 1) : ls[j].kind = "header"}
    IN IF hs = {} THEN ""
       ELSE ls[CHOOSE j \in hs : \A k \in hs : k <= j].key

DefinesRootName(ls, i) ==
    \/ ls[i].kind = "header"
    \/ ls[i].kind = "kv" /\ SectionOf(ls, i) = ""

WellFormedToml(ls) ==
    /\ \A i \in LineIndices(ls) : ls[i].kind # "junk"
    /\ \A i, j \in LineIndices(ls) :
          i < j /\ DefinesRootName(ls, i) /\ DefinesRootName(ls, j)
              => ls[i].key # ls[j].key
    /\ \A i, j \in LineIndices(ls) :
          i < j /\ ls[i].kind = "kv" /\ ls[j].kind = "kv"
                /\ SectionOf(ls, i) = SectionOf(ls, j)
              => ls[i].key # ls[j].key

PackageVersionLines(ls) ==
    {i \in LineIndices(ls) : /\ ls[i].kind = "kv"
                             /\ ls[i].key = "version"
                             /\ SectionOf(ls, i) = "package"}

Readable == file.exists
Parsable == Readable /\ WellFormedToml(ManifestLines)
HasPackageVersion == Parsable /\ PackageVersionLines(ManifestLines) # {}
PackageVersion ==
    ManifestLines[CHOOSE i \in PackageVersionLines(ManifestLines) : TRUE].val
Finished == pc = "done"

\* ================================================================ claims
InRun == pc \in {"A3", "A5", "A6", "B5", "C5", "C6", "C7", "C8", "return", "done"}

\* C1: patch fixture, manifest readable and parsable but without
\* package.version: the finished run printed exactly "Version: unknown" and
\* did not fail.
C1_MissingKeyPrintsUnknown ==
    (prog = "C" /\ Finished /\ Parsable /\ ~HasPackageVersion)
        => /\ stdout = <<"Version: unknown">>
           /\ exitStatus = 0

\* What the code does for C1's manifests instead: the index expression
\* panics, nothing is printed and the status is 101.
C1_MissingKeyPanics ==
    (prog = "C" /\ Finished /\ Parsable /\ ~HasPackageVersion)
        => /\ stdout = <<>>
           /\ exitStatus = 101
           /\ stderr = <<"index not found">>

\* C2: patch fixture, package.version is a string V: the finished run
\* printed exactly the one line "Version: V" and exited with status 0.
C2_StringVersionPrinted ==
    (prog = "C" /\ Finished /\ HasPackageVersion /\ PackageVersion.type = "String")
        => /\ stdout = <<"Version: " \o PackageVersion.s>>
           /\ exitStatus = 0
           /\ stderr = <<>>

C2_Witness ==
    /\ prog = "C" /\ Finished /\ HasPackageVersion
    /\ PackageVersion = StringValue("dev")
    /\ stdout = <<"Version: dev">>
    /\ exitStatus = 0

\* C3: patch fixture, Cargo.toml missing or not TOML: nothing is ever
\* written to standard output, the print step is never reached, and a
\* finished run has a non-zero status.
C3_FatalFileErrors ==
    (prog = "C" /\ ~Parsable)
        => /\ stdout = <<>>
           /\ pc \notin {"C7", "C8", "return"}
           /\ (Finished => exitStatus # 0)

C3_Witness ==
    /\ prog = "C" /\ Finished
    /\ Readable /\ ~Parsable
    /\ stdout = <<>>
    /\ exitStatus = 101
    /\ stderr = <<"Failed to parse Cargo.toml">>

C3_WitnessMissing ==
    /\ prog = "C" /\ Finished
    /\ ~Readable
    /\ exitStatus = 101
    /\ stderr = <<"Failed to read Cargo.toml">>

\* C4: patch fixture: a finished run failed if and only if Cargo.toml is
\* unreadable or unparsable; every readable, parsable manifest gives status
\* 0 and a "Version: ..." line.
C4_OnlyTwoFatalConditions ==
    (prog = "C" /\ Finished)
        => /\ (exitStatus # 0 <=> ~Parsable)
           /\ (Parsable => exitStatus = 0 /\ Len(stdout) = 1)

\* C5: patch fixture, package.version present but not a string: the
\* finished run printed exactly "Version: unknown" and exited with status 0.
C5_NonStringVersionUnknown ==
    (prog = "C" /\ Finished /\ HasPackageVersion /\ PackageVersion.type # "String")
        => /\ stdout = <<"Version: unknown">>
           /\ exitStatus = 0
           /\ stderr = <<>>

C5_Witness ==
    /\ prog = "C" /\ Finished /\ HasPackageVersion
    /\ PackageVersion.type = "Integer"
    /\ stdout = <<"Version: unknown">>
    /\ exitStatus = 0

\* C6: example program: built without VERSION, a finished run's output
\* contains "Version: 0.0.0"; built with VERSION = V (the empty string
\* included), it contains "Version: V" and not the fallback.
OutputLines == {stdout[i] : i \in 1..Len(stdout)}
C6_ExampleVersionOrFallback ==
    (prog = "A" /\ Finished)
        => IF buildEnv.some
           THEN /\ ("Version: " \o buildEnv.v) \in OutputLines
                /\ "Version: 0.0.0" \notin OutputLines
           ELSE "Version: 0.0.0" \in OutputLines

C6_Witness ==
    /\ prog = "A" /\ Finished
    /\ buildEnv = Some("")
    /\ "Version: " \in OutputLines

C6_WitnessUnset ==
    /\ prog = "A" /\ Finished
    /\ buildEnv = None
    /\ "Version: 0.0.0" \in OutputLines

\* C7: link fixture: a finished run of a binary built with VERSION = V
\* wrote exactly the one line "Version: V", and no run ever fails.
C7_LinkPrintsExactlyVersion ==
    prog = "B"
        => /\ exitStatus \in {-1, 0}
           /\ stderr = <<>>
           /\ (Finished => /\ buildEnv.some
                           /\ stdout = <<"Version: " \o buildEnv.v>>
                           /\ exitStatus = 0)

C7_Witness ==
    /\ prog = "B" /\ Finished
    /\ buildEnv = Some("1.2.3")
    /\ stdout = <<"Version: 1.2.3">>
    /\ exitStatus = 0

\* C8: link fixture: with VERSION unset the build fails and leaves no
\* binary; a run only exists for a binary with a value baked in, and no run
\* ends in a failure.
C8_UnsetFailsAtBuild ==
    prog = "B"
        => /\ (~buildEnv.some /\ pc # "build" => pc = "build_failed" /\ ~binary.built)
           /\ (binary.built => binary.version.some)
           /\ (pc \in {"ready", "B5", "return", "done"}
                   => binary.built /\ binary.version = buildEnv)
           /\ exitStatus # PanicStatus

C8_Witness ==
    /\ prog = "B"
    /\ buildEnv = None
    /\ pc = "build_failed"
    /\ ~binary.built

\* C9: example program: every run writes the banner first and the version
\* line second, exactly these two lines, and ends with status 0.
C9_ExampleTwoLinesInOrder ==
    prog = "A"
        => /\ exitStatus \in {-1, 0}
           /\ stderr = <<>>
           /\ (InRun /\ Len(stdout) >= 1 => stdout[1] = "Sample Rust Application")
           /\ (Finished =>
                 /\ stdout = <<"Sample Rust Application",
                               "Version: " \o (IF buildEnv.some THEN buildEnv.v ELSE "0.0.0")>>
                 /\ exitStatus = 0)

C9_Witness ==
    /\ prog = "A" /\ Finished
    /\ buildEnv = None
    /\ stdout = <<"Sample Rust Application", "Version: 0.0.0">>
    /\ exitStatus = 0

\* C10: two finished runs of the same binary of A or B give the same output
\* and status whatever VERSION is at run time; two finished runs of C on the
\* same Cargo.toml give the same output and status whatever VERSION was at
\* build time.
C10_OutputFixedAtBuild ==
    (Finished /\ prev.valid)
        => /\ (prog \in {"A", "B"} /\ prev.binary = binary
                 => stdout = prev.stdout /\ exitStatus = prev.exitStatus)
           /\ (prog = "C" /\ prev.file = file
                 => stdout = prev.stdout /\ exitStatus = prev.exitStatus)

C10_Witness ==
    /\ prog = "A" /\ Finished /\ prev.valid
    /\ prev.binary = binary
    /\ buildEnv = Some("1.2.3")
    /\ prev.runEnv = None /\ runEnv = Some("dev")
    /\ stdout = prev.stdout
    /\ stdout # <<>>

C10_WitnessPatch ==
    /\ prog = "C" /\ Finished /\ prev.valid
    /\ prev.file = file
    /\ prev.buildEnv # buildEnv
    /\ stdout = prev.stdout
    /\ stdout = <<"Version: 1.2.3">>

====
